---- MODULE Spec2Model ----
(***************************************************************************)
(* News-analysis ingestion and retention pipeline of ai_investor_server:   *)
(* NewsDataTransformer.save_analysis_to_db and its helpers, over the       *)
(* tables OverallSentiment, SecurityNewsSummary, KeyHighlight, NewsItem    *)
(* and UpcomingEvent.                                                      *)
(***************************************************************************)
EXTENDS Integers, Sequences, FiniteSets, TLC

(***************************************************************************)
(* Bounds of the model.                                                    *)
(***************************************************************************)
\* ingestion calls in one behaviour
MaxCalls == 2
\* longest key_highlights list of an analysis
MaxHighlights == 2
\* longest recent_news list of an analysis
MaxNewsLen == 2
\* longest upcoming_events list of an analysis
MaxEventsLen == 2
\* connections that run ingestion calls at the same time
MaxProcs == 2
\* ingestion calls in one behaviour of the concurrent connections
MaxConcurrentCalls == 3
\* securities in the list of one batch run
MaxBatch == 3

(***************************************************************************)
(* Program constants.                                                      *)
(***************************************************************************)
MAX_NEWS_ITEMS_PER_SECURITY == 20
MAX_UPCOMING_EVENTS_PER_SECURITY == 20
\* the defaults of the options --max-news-items and --max-events of the command
max_news_items_default == 20
max_events_default == 20

\* Python's None, for values that are compared with strings only
None == "None"

\* an optional integer argument: <<>> is None, <<n>> is the integer n
NoOverride == <<>>

Min(a, b) == IF a < b THEN a ELSE b
Max(a, b) == IF a > b THEN a ELSE b

SeqsUpTo(S, n) == UNION {[1..k -> S] : k \in 0..n}

(***************************************************************************)
(* Date strings.  A string is modelled by its text together with the shape *)
(* the parsers recognise in it: the strptime format it matches (if any)    *)
(* and the year, month and day fields read from it.                        *)
(***************************************************************************)
DateFormats == <<"%Y-%m-%d", "%m/%d/%Y", "%B %d, %Y", "%b %d, %Y", "%Y-%m-%d %H:%M:%S">>

DateStr(text, shape, y, m, d) == [text |-> text, shape |-> shape, y |-> y, m |-> m, d |-> d]

D_iso      == DateStr("2024-01-15", "%Y-%m-%d", 2024, 1, 15)
D_us       == DateStr("01/16/2024", "%m/%d/%Y", 2024, 1, 16)
D_long     == DateStr("January 17, 2024", "%B %d, %Y", 2024, 1, 17)
D_fuzzy    == DateStr("Q1 2025", "none", 0, 0, 0)
D_empty    == DateStr("", "empty", 0, 0, 0)
D_feb30    == DateStr("2024-02-30", "%Y-%m-%d", 2024, 2, 30)
D_us_bad   == DateStr("02/30/2024", "%m/%d/%Y", 2024, 2, 30)

DateStrings == {D_iso, D_us, D_long, D_fuzzy, D_empty, D_feb30, D_us_bad}

IsLeap(y) == (y % 4 = 0 /\ y % 100 # 0) \/ y % 400 = 0

DaysInMonth(y, m) ==
    IF m = 2 THEN (IF IsLeap(y) THEN 29 ELSE 28)
    ELSE IF m \in {4, 6, 9, 11} THEN 30 ELSE 31

\* datetime.date(y, m, d) accepts the triple
ValidDate(y, m, d) == y \in 1..9999 /\ m \in 1..12 /\ d \in 1..DaysInMonth(y, m)

Date(y, m, d) == [kind |-> "date", y |-> y, m |-> m, d |-> d]
NoDate        == [kind |-> "none", y |-> 0, m |-> 0, d |-> 0]
ValueError    == [kind |-> "raise", y |-> 0, m |-> 0, d |-> 0]

\* date.today() of the processing run
Today == Date(2025, 6, 1)

\* datetime.strptime(s, fmt) succeeds: s has the shape of fmt and names a real day
strptime_ok(s, fmt) == s.shape = fmt /\ ValidDate(s.y, s.m, s.d)

\* django.utils.dateparse.parse_date: None when the text is not of the form
\* YYYY-M-D, the date when it is, ValueError when that date does not exist
parse_date(s) ==
    IF s.shape # "%Y-%m-%d" THEN NoDate
    ELSE IF ValidDate(s.y, s.m, s.d) THEN Date(s.y, s.m, s.d)
    ELSE ValueError

\* only the ISO form is read: the strptime formats are left out
parse_date_string_iso_only(s) ==
    IF s.shape = "empty" THEN NoDate ELSE parse_date(s)

parse_date_string(s) ==
    IF s.shape = "empty" THEN NoDate
    ELSE IF \E i \in 1..Len(DateFormats) : strptime_ok(s, DateFormats[i])
         THEN Date(s.y, s.m, s.d)
    ELSE parse_date(s)

(***************************************************************************)
(* Inputs of save_analysis_to_db.                                          *)
(***************************************************************************)
Securities == {"AAPL", "MSFT"}

Sentiment(s, r, c) == [sentiment |-> s, rationale |-> r, confidence_level |-> c]

SentimentInputs ==
    { Sentiment("Bullish", "strong earnings", "High"),
      Sentiment("Bullish", "strong earnings", None),
      Sentiment("Bullish", "new product", "Low"),
      Sentiment("Bearish", "strong earnings", "Medium") }

SummaryFields(v) ==
    [ executive_summary  |-> <<"executive_summary", v>>,
      summary            |-> <<"summary", v>>,
      positive_catalysts |-> <<"positive_catalysts", v>>,
      risk_factors       |-> <<"risk_factors", v>>,
      key_metrics        |-> {<<"price", v>>},
      disclaimer         |-> <<"disclaimer", v>> ]

SummaryInputs == {SummaryFields(1), SummaryFields(2)}

HighlightTexts == {"h1", "h2"}
HighlightLists == SeqsUpTo(HighlightTexts, MaxHighlights)

NewsData(url, v, d) ==
    [ headline     |-> <<"headline", v>>,
      date         |-> d,
      source       |-> <<"source", v>>,
      url          |-> url,
      favicon      |-> <<"favicon", v>>,
      impact_level |-> IF v = 1 THEN "High" ELSE "Low",
      summary      |-> <<"summary", v>> ]

NewsInputs ==
    { NewsData("u1", 1, D_iso),
      NewsData("u1", 2, D_us),
      NewsData("u2", 1, D_fuzzy) }

NewsLists == SeqsUpTo(NewsInputs, MaxNewsLen)

EventData(v, d) ==
    [ event      |-> <<"event", v>>,
      date       |-> d,
      category   |-> IF v = 1 THEN "Earnings" ELSE "Regulatory",
      importance |-> IF v = 1 THEN "High" ELSE "Low" ]

EventInputs == {EventData(1, D_fuzzy), EventData(2, D_iso)}

EventLists == SeqsUpTo(EventInputs, MaxEventsLen)

CapInputs == {NoOverride, <<0 - 1>>, <<0>>, <<1>>}

Analysis(sent, summ, hl, news, ev) ==
    [ overall_sentiment  |-> sent,
      executive_summary  |-> summ.executive_summary,
      summary            |-> summ.summary,
      positive_catalysts |-> summ.positive_catalysts,
      risk_factors       |-> summ.risk_factors,
      key_metrics        |-> summ.key_metrics,
      disclaimer         |-> summ.disclaimer,
      key_highlights     |-> hl,
      recent_news        |-> news,
      upcoming_events    |-> ev ]

(***************************************************************************)
(* The store: one set of rows per table, and the id sequence of each table.*)
(***************************************************************************)
EmptyStore ==
    [ sentiments |-> {}, summaries |-> {}, highlights |-> {}, news |-> {}, events |-> {},
      seq |-> [sentiments |-> 0, summaries |-> 0, highlights |-> 0, news |-> 0, events |-> 0] ]

\* no filter on the security: the rows of every security
OfSecurity_all(rows, security) == rows

\* the rows of a table that belong to one security
OfSecurity(rows, security) == {r \in rows : r.security = security}

\* get_or_create that also matches on confidence_level
get_or_create_match_confidence(store, s) ==
    LET found == {r \in store.sentiments :
                     /\ r.sentiment = s.sentiment
                     /\ r.rationale = s.rationale
                     /\ r.confidence_level = s.confidence_level}
        id    == store.seq.sentiments + 1
        row   == [id |-> id, sentiment |-> s.sentiment, rationale |-> s.rationale,
                  confidence_level |-> s.confidence_level]
    IN  IF found # {}
        THEN [raised |-> FALSE, store |-> store,
              id |-> (CHOOSE r \in found : TRUE).id, created |-> FALSE]
        ELSE [raised |-> FALSE,
              store |-> [store EXCEPT !.sentiments = @ \cup {row}, !.seq.sentiments = id],
              id |-> id, created |-> TRUE]

\* OverallSentiment.objects.get_or_create(sentiment=, rationale=, defaults={confidence_level})
get_or_create(store, s) ==
    LET found == {r \in store.sentiments :
                     r.sentiment = s.sentiment /\ r.rationale = s.rationale}
        id    == store.seq.sentiments + 1
        row   == [id |-> id, sentiment |-> s.sentiment, rationale |-> s.rationale,
                  confidence_level |-> s.confidence_level]
    IN  IF Cardinality(found) > 1
        THEN [raised |-> TRUE, store |-> store, id |-> 0, created |-> FALSE]
        ELSE IF found # {}
        THEN [raised |-> FALSE, store |-> store,
              id |-> (CHOOSE r \in found : TRUE).id, created |-> FALSE]
        ELSE [raised |-> FALSE,
              store |-> [store EXCEPT !.sentiments = @ \cup {row}, !.seq.sentiments = id],
              id |-> id, created |-> TRUE]

\* defaults with summary and executive_summary taken from each other's field
SummaryDefaults_swapped(analysis, sentiment) ==
    [ executive_summary  |-> analysis.summary,
      summary            |-> analysis.executive_summary,
      positive_catalysts |-> analysis.positive_catalysts,
      risk_factors       |-> analysis.risk_factors,
      overall_sentiment  |-> sentiment,
      key_metrics        |-> analysis.key_metrics,
      disclaimer         |-> analysis.disclaimer ]

\* the summary is written with the sentiment not yet resolved
SummaryDefaults_unresolved(analysis, sentiment) ==
    [ executive_summary  |-> analysis.executive_summary,
      summary            |-> analysis.summary,
      positive_catalysts |-> analysis.positive_catalysts,
      risk_factors       |-> analysis.risk_factors,
      overall_sentiment  |-> 0,
      key_metrics        |-> analysis.key_metrics,
      disclaimer         |-> analysis.disclaimer ]

\* the defaults of SecurityNewsSummary.objects.update_or_create
SummaryDefaults(analysis, sentiment) ==
    [ executive_summary  |-> analysis.executive_summary,
      summary            |-> analysis.summary,
      positive_catalysts |-> analysis.positive_catalysts,
      risk_factors       |-> analysis.risk_factors,
      overall_sentiment  |-> sentiment,
      key_metrics        |-> analysis.key_metrics,
      disclaimer         |-> analysis.disclaimer ]

SummaryRow(id, security, d) ==
    [ id |-> id, security |-> security,
      executive_summary  |-> d.executive_summary,
      summary            |-> d.summary,
      positive_catalysts |-> d.positive_catalysts,
      risk_factors       |-> d.risk_factors,
      overall_sentiment  |-> d.overall_sentiment,
      key_metrics        |-> d.key_metrics,
      disclaimer         |-> d.disclaimer ]

\* create in place of update_or_create
update_or_create_always_create(store, security, defaults) ==
    LET id == store.seq.summaries + 1
    IN  [raised |-> FALSE,
         store |-> [store EXCEPT !.summaries = @ \cup {SummaryRow(id, security, defaults)},
                                 !.seq.summaries = id],
         id |-> id, created |-> TRUE]

\* SecurityNewsSummary.objects.update_or_create(security=, defaults=)
update_or_create(store, security, defaults) ==
    LET found == OfSecurity(store.summaries, security)
        id    == store.seq.summaries + 1
    IN  IF Cardinality(found) > 1
        THEN [raised |-> TRUE, store |-> store, id |-> 0, created |-> FALSE]
        ELSE IF found # {}
        THEN LET old == CHOOSE r \in found : TRUE
             IN  [raised |-> FALSE,
                  store |-> [store EXCEPT !.summaries =
                                (@ \ {old}) \cup {SummaryRow(old.id, security, defaults)}],
                  id |-> old.id, created |-> FALSE]
        ELSE [raised |-> FALSE,
              store |-> [store EXCEPT !.summaries = @ \cup {SummaryRow(id, security, defaults)},
                                      !.seq.summaries = id],
              id |-> id, created |-> TRUE]

\* the old highlights are left in place
delete_highlights_none(store, news_summary) == store

\* KeyHighlight.objects.filter(security_news_summary=news_summary).delete()
delete_highlights(store, news_summary) ==
    [store EXCEPT !.highlights = {h \in @ : h.security_news_summary # news_summary}]

\* for order, highlight in enumerate(key_highlights): KeyHighlight.objects.create(...)
create_highlights(store, news_summary, key_highlights) ==
    LET base == store.seq.highlights
        rows == { [id |-> base + i, security_news_summary |-> news_summary,
                   highlight |-> key_highlights[i], order |-> i - 1]
                  : i \in 1..Len(key_highlights) }
    IN  [store EXCEPT !.highlights = @ \cup rows,
                      !.seq.highlights = base + Len(key_highlights)]

NewsRow(id, security, nd, parsed, t) ==
    [ id |-> id, security |-> security, headline |-> nd.headline, date |-> parsed,
      source |-> nd.source, url |-> nd.url, favicon |-> nd.favicon,
      impact_level |-> nd.impact_level, summary |-> nd.summary, created_at |-> t ]

\* the url is looked up among the rows of the security only
url_exists_same_security(store, security, url) ==
    \E r \in store.news : r.url = url /\ r.security = security

\* no lookup: every item is taken as new
url_exists_never(store, security, url) == FALSE

\* NewsItem.objects.filter(url=news_data.url).exists()
url_exists(store, security, url) == \E r \in store.news : r.url = url

\* the loop over analysis.recent_news, from item i on; now is the last reading of
\* the clock.  created_at is auto_now_add, read from the clock at each create():
\* the creates are separate statements, and each reads the clock later than the
\* one before it
RECURSIVE add_news_items(_, _, _, _, _)
add_news_items(store, security, recent_news, i, now) ==
    IF i > Len(recent_news)
    THEN [raised |-> FALSE, store |-> store, clock |-> now]
    ELSE LET nd == recent_news[i] IN
         IF url_exists(store, security, nd.url)
         THEN add_news_items(store, security, recent_news, i + 1, now)
         ELSE LET p      == parse_date_string(nd.date)
                  parsed == IF p.kind = "none" THEN Today ELSE p
                  id     == store.seq.news + 1
                  t      == now + 1
              IN  IF p.kind = "raise"
                  THEN [raised |-> TRUE, store |-> store, clock |-> now]
                  ELSE add_news_items(
                         [store EXCEPT !.news = @ \cup {NewsRow(id, security, nd, parsed, t)},
                                       !.seq.news = id],
                         security, recent_news, i + 1, t)

EventRow(id, security, ed, t) ==
    [ id |-> id, security |-> security, event |-> ed.event, date |-> ed.date,
      category |-> ed.category, importance |-> ed.importance, created_at |-> t ]

\* the loop with an existence check: an event the security already holds with the
\* same description and date is skipped
RECURSIVE add_events_dedup(_, _, _, _, _)
add_events_dedup(store, security, upcoming_events, i, now) ==
    IF i > Len(upcoming_events)
    THEN [store |-> store, clock |-> now]
    ELSE LET ed == upcoming_events[i]
             id == store.seq.events + 1
             t  == now + 1
         IN  IF \E e \in store.events :
                   e.security = security /\ e.event = ed.event /\ e.date = ed.date
             THEN add_events_dedup(store, security, upcoming_events, i + 1, now)
             ELSE add_events_dedup(
                    [store EXCEPT !.events = @ \cup {EventRow(id, security, ed, t)},
                                  !.seq.events = id],
                    security, upcoming_events, i + 1, t)

\* the loop over analysis.upcoming_events, from item i on
RECURSIVE add_events(_, _, _, _, _)
add_events(store, security, upcoming_events, i, now) ==
    IF i > Len(upcoming_events)
    THEN [store |-> store, clock |-> now]
    ELSE LET id == store.seq.events + 1
             t  == now + 1
         IN  add_events(
               [store EXCEPT !.events = @ \cup {EventRow(id, security, upcoming_events[i], t)},
                             !.seq.events = id],
               security, upcoming_events, i + 1, t)

\* max_items or default: an override of 0 counts as not given
effective_max_or_default(max_items, default) ==
    IF max_items # NoOverride /\ max_items[1] # 0 THEN max_items[1] ELSE default

\* max_items if max_items is not None else the configured default
effective_max(max_items, default) ==
    IF max_items # NoOverride THEN max_items[1] ELSE default

\* excess_count of the cleanup functions: 0 when total_count > max_items is false
excess_count(total_count, max_items) ==
    IF total_count > max_items THEN total_count - max_items ELSE 0

\* order_by("-created_at"): the newest rows are taken
oldest_items_newest(rows, n) ==
    { {r.id : r \in S} : S \in { T \in SUBSET rows :
          /\ Cardinality(T) = Min(n, Cardinality(rows))
          /\ \A r \in T : \A q \in rows \ T : r.created_at >= q.created_at } }

\* .order_by("created_at").values_list("id", flat=True)[:n]: the ids of n rows none
\* of which was created after a row left out (rows created at the same time come
\* in an order the database chooses)
oldest_items(rows, n) ==
    { {r.id : r \in S} : S \in { T \in SUBSET rows :
          /\ Cardinality(T) = Min(n, Cardinality(rows))
          /\ \A r \in T : \A q \in rows \ T : r.created_at <= q.created_at } }

\* .filter(id__in=ids).delete()
delete_ids(rows, ids) == {r \in rows : r.id \notin ids}

(***************************************************************************)
(* The calls of save_analysis_to_db the model makes.  Each family varies   *)
(* one part of the arguments over all its values and keeps the rest fixed. *)
(***************************************************************************)
Call(security, analysis, max_news_items, max_events, skip_cleanup) ==
    [ security |-> security, analysis |-> analysis, max_news_items |-> max_news_items,
      max_events |-> max_events, skip_cleanup |-> skip_cleanup ]

BaseSentiment  == Sentiment("Bullish", "strong earnings", "High")
BaseSummary    == SummaryFields(1)
BaseHighlights == <<"h1">>
BaseNews       == <<NewsData("u1", 1, D_iso), NewsData("u2", 1, D_fuzzy)>>
BaseEvents     == <<EventData(1, D_fuzzy), EventData(2, D_iso)>>

\* the cap overrides and skip_cleanup: every cap with cleanup on, and cleanup off
Options(caps) == {<<cap, FALSE>> : cap \in caps} \cup {<<NoOverride, TRUE>>}

\* the sentiment varies
SentimentCalls ==
    { Call(sec, Analysis(sent, BaseSummary, BaseHighlights, <<>>, <<>>),
           NoOverride, NoOverride, FALSE) :
        sec \in Securities, sent \in SentimentInputs }

\* the summary fields vary
SummaryCalls ==
    { Call(sec, Analysis(BaseSentiment, summ, BaseHighlights, <<>>, <<>>),
           NoOverride, NoOverride, FALSE) :
        sec \in Securities, summ \in SummaryInputs }

\* the highlight list varies
HighlightCalls ==
    { Call(sec, Analysis(BaseSentiment, BaseSummary, hl, <<>>, <<>>),
           NoOverride, NoOverride, FALSE) :
        sec \in Securities, hl \in HighlightLists }

\* the news list and its cap vary
NewsCalls ==
    { Call(sec, Analysis(BaseSentiment, BaseSummary, BaseHighlights, news, <<>>),
           o[1], NoOverride, o[2]) :
        sec \in Securities, news \in NewsLists, o \in Options(CapInputs) }

\* the event list and its cap vary
EventCalls ==
    { Call(sec, Analysis(BaseSentiment, BaseSummary, BaseHighlights, <<>>, ev),
           NoOverride, o[1], o[2]) :
        sec \in Securities, ev \in EventLists, o \in Options(CapInputs) }

\* both lists are given and both caps vary
MixedCalls ==
    { Call(sec, Analysis(BaseSentiment, SummaryFields(2), <<"h2", "h1">>, BaseNews, BaseEvents),
           o[1], o[2], o[3]) :
        sec \in Securities,
        o \in {<<n, e, FALSE>> : n \in CapInputs, e \in CapInputs}
              \cup {<<NoOverride, NoOverride, TRUE>>} }

\* the date string of a news item varies
DateCalls ==
    { Call(sec, Analysis(BaseSentiment, BaseSummary, BaseHighlights,
                         <<NewsData("u3", 2, d)>>, <<>>),
           NoOverride, NoOverride, FALSE) :
        sec \in Securities, d \in DateStrings }

Calls == SentimentCalls \cup SummaryCalls \cup HighlightCalls \cup NewsCalls
         \cup EventCalls \cup MixedCalls \cup DateCalls

(***************************************************************************)
(* State.                                                                  *)
(***************************************************************************)
VARIABLES
    db,       \* the committed store
    tx,       \* the store as the running transaction sees it
    pc,       \* position of the running call: "idle", a step, "done" or "failed"
    call,     \* arguments of the running (or last) call
    local,    \* local variables sentiment and news_summary of the call (row ids)
    clock,    \* the clock that stamps created_at
    ncalls,   \* calls started so far
    pre,      \* the committed store when the running call began
    errored,  \* the step of the running call in which an exception was raised, or ""
    repeat,   \* the running call has the arguments of the previous call, which succeeded
    ingested, \* the securities with a committed ingestion
    made,     \* the urls a NewsItem row was created for: by the calls that committed
              \* (done) and by the running call (now)
    proc,     \* the connections that run calls at the same time: for each, the
              \* position, arguments, locals and uncommitted writes of its call
    batch,    \* the run of the update_news_summaries command: its options, its list
              \* of securities, the loop position and the two counters
    folio     \* the portfolios: the Holding rows, the SecurityFundamentals row of each
              \* security, and what calculate_portfolio_composition last returned

vars == <<db, tx, pc, call, local, clock, ncalls, pre, errored, repeat, ingested, made,
          proc, batch, folio>>

NoLocal == [sentiment |-> 0, news_summary |-> 0]

NoCall == Call("", <<>>, NoOverride, NoOverride, FALSE)

\* no uncommitted row in any table
NoWrites == [sentiments |-> {}, summaries |-> {}, highlights |-> {}, news |-> {}, events |-> {}]

Procs == 1..MaxProcs

\* a connection that runs no call
IdleProc ==
    [ pc |-> "idle", call |-> NoCall, local |-> NoLocal, add |-> NoWrites, del |-> NoWrites,
      locked |-> {}, errored |-> "", overlap |-> FALSE ]

\* the command is not running
NoBatch ==
    [ stage |-> "off", securities |-> <<>>, i |-> 0, dry_run |-> FALSE,
      max_news_items |-> 0, max_events |-> 0, no_cleanup |-> FALSE,
      processed_count |-> 0, error_count |-> 0, outcome |-> <<>>, before |-> EmptyStore ]

\* a security without a SecurityFundamentals row
NoFundamentals == [present |-> FALSE, current_price |-> <<>>]

\* what PortfolioSummary holds; the percentage in hundredths of a percent
Summary(value, cost, gain, percent, count) ==
    [ total_portfolio_value |-> value, total_cost |-> cost,
      total_unrealized_gain_loss |-> gain,
      total_unrealized_gain_loss_percent |-> percent, holdings_count |-> count ]

\* no call of calculate_portfolio_composition has returned
NoResult == [user |-> "", raised |-> FALSE, holdings |-> <<>>, summary |-> Summary(0, 0, 0, 0, 0)]

\* no holdings, no fundamentals
NoFolio ==
    [ holdings |-> {}, fundamentals |-> [s \in Securities |-> NoFundamentals],
      result |-> NoResult ]

Init ==
    /\ folio = NoFolio
    /\ proc = [p \in Procs |-> IdleProc]
    /\ batch = NoBatch
    /\ db = EmptyStore
    /\ tx = EmptyStore
    /\ pc = "idle"
    /\ call = NoCall
    /\ local = NoLocal
    /\ clock = 0
    /\ ncalls = 0
    /\ pre = EmptyStore
    /\ errored = ""
    /\ repeat = FALSE
    /\ ingested = {}
    /\ made = [done |-> {}, now |-> {}]

\* no transaction: the writes made before the exception stay
Rollback_keep(committed, working) == working

\* transaction.atomic on an exception: the writes of the transaction are dropped
Rollback(committed, working) == committed

\* the exception leaves save_analysis_to_db: logged, re-raised, rolled back
Raise ==
    /\ pc' = "failed"
    /\ db' = Rollback(db, tx)
    /\ tx' = Rollback(db, tx)
    /\ errored' = pc
    /\ made' = [made EXCEPT !.now = {}]
    /\ UNCHANGED <<call, local, clock, ncalls, pre, repeat, ingested, proc, batch, folio>>

\* save_analysis_to_db(security, analysis, max_news_items, max_events, skip_cleanup)
\* is called: the atomic block is entered
Begin(c) ==
    /\ pc \in {"idle", "done", "failed"}
    /\ ncalls < MaxCalls
    /\ repeat' = (pc = "done" /\ c = call)
    /\ call' = c
    /\ tx' = db
    /\ pre' = db
    /\ local' = NoLocal
    /\ errored' = ""
    /\ ncalls' = ncalls + 1
    /\ pc' = "sentiment"
    /\ made' = [made EXCEPT !.now = {}]
    /\ UNCHANGED <<db, clock, ingested, proc, batch, folio>>

\* 1. create or reuse OverallSentiment
ResolveSentiment ==
    /\ pc = "sentiment"
    /\ LET r == get_or_create(tx, call.analysis.overall_sentiment) IN
       IF r.raised THEN Raise
       ELSE /\ tx' = r.store
            /\ local' = [local EXCEPT !.sentiment = r.id]
            /\ pc' = "summary"
            /\ UNCHANGED <<db, call, clock, ncalls, pre, errored, repeat, ingested, made, proc, batch, folio>>

\* 2. create or update SecurityNewsSummary
UpsertSummary ==
    /\ pc = "summary"
    /\ LET r == update_or_create(tx, call.security,
                                 SummaryDefaults(call.analysis, local.sentiment)) IN
       IF r.raised THEN Raise
       ELSE /\ tx' = r.store
            /\ local' = [local EXCEPT !.news_summary = r.id]
            /\ pc' = "highlights"
            /\ UNCHANGED <<db, call, clock, ncalls, pre, errored, repeat, ingested, made, proc, batch, folio>>

\* 3. clear and recreate KeyHighlights
ReplaceHighlights ==
    /\ pc = "highlights"
    /\ tx' = create_highlights(delete_highlights(tx, local.news_summary),
                               local.news_summary, call.analysis.key_highlights)
    /\ pc' = "news"
    /\ UNCHANGED <<db, call, local, clock, ncalls, pre, errored, repeat, ingested, made, proc, batch, folio>>

\* 4. add new NewsItems, skipping the URLs already stored
MergeNews ==
    /\ pc = "news"
    /\ LET r == add_news_items(tx, call.security, call.analysis.recent_news, 1, clock) IN
       IF r.raised THEN Raise
       ELSE /\ tx' = r.store
            /\ clock' = r.clock
            /\ pc' = IF call.skip_cleanup THEN "events" ELSE "trim_news"
            /\ made' = [made EXCEPT !.now = @ \cup {n.url : n \in r.store.news \ tx.news}]
            /\ UNCHANGED <<db, call, local, ncalls, pre, errored, repeat, ingested, proc, batch, folio>>

\* cleanup_excess_news_items(security, effective_max_news)
TrimNews ==
    /\ pc = "trim_news"
    /\ LET mine  == OfSecurity(tx.news, call.security)
           limit == effective_max(call.max_news_items, MAX_NEWS_ITEMS_PER_SECURITY)
       IN  \E ids \in oldest_items(mine, excess_count(Cardinality(mine), limit)) :
              tx' = [tx EXCEPT !.news = delete_ids(@, ids)]
    /\ pc' = "events"
    /\ UNCHANGED <<db, call, local, clock, ncalls, pre, errored, repeat, ingested, made, proc, batch, folio>>

\* 5. add new UpcomingEvents
AppendEvents ==
    /\ pc = "events"
    /\ LET r == add_events(tx, call.security, call.analysis.upcoming_events, 1, clock) IN
         /\ tx' = r.store
         /\ clock' = r.clock
    /\ pc' = IF call.skip_cleanup THEN "commit" ELSE "trim_events"
    /\ UNCHANGED <<db, call, local, ncalls, pre, errored, repeat, ingested, made, proc, batch, folio>>

\* cleanup_excess_upcoming_events(security, effective_max_events)
TrimEvents ==
    /\ pc = "trim_events"
    /\ LET mine  == OfSecurity(tx.events, call.security)
           limit == effective_max(call.max_events, MAX_UPCOMING_EVENTS_PER_SECURITY)
       IN  \E ids \in oldest_items(mine, excess_count(Cardinality(mine), limit)) :
              tx' = [tx EXCEPT !.events = delete_ids(@, ids)]
    /\ pc' = "commit"
    /\ UNCHANGED <<db, call, local, clock, ncalls, pre, errored, repeat, ingested, made, proc, batch, folio>>

\* return news_summary: the atomic block is left and the transaction commits
Commit ==
    /\ pc = "commit"
    /\ db' = tx
    /\ pc' = "done"
    /\ ingested' = ingested \cup {call.security}
    /\ made' = [done |-> made.done \cup made.now, now |-> {}]
    /\ UNCHANGED <<tx, call, local, clock, ncalls, pre, errored, repeat, proc, batch, folio>>

\* a storage operation of a step raises (connectivity, lock, constraint): in the
\* steps of save_analysis_to_db itself the exception reaches its except clause
StorageError ==
    /\ pc \in {"sentiment", "summary", "highlights", "news", "events", "commit"}
    /\ Raise

\* the except clause of a cleanup function: what it catches is logged and dropped
CleanupCaught(next) ==
    /\ pc' = next
    /\ errored' = pc
    /\ UNCHANGED <<db, tx, call, local, clock, ncalls, pre, repeat, ingested, made, proc, batch, folio>>

\* an operation of cleanup_excess_news_items raises
TrimNewsError == pc = "trim_news" /\ CleanupCaught("events")

\* an operation of cleanup_excess_upcoming_events raises
TrimEventsError == pc = "trim_events" /\ CleanupCaught("commit")

Next ==
    \/ \E c \in Calls : Begin(c)
    \/ ResolveSentiment
    \/ UpsertSummary
    \/ ReplaceHighlights
    \/ MergeNews
    \/ TrimNews
    \/ AppendEvents
    \/ TrimEvents
    \/ Commit
    \/ StorageError
    \/ TrimNewsError
    \/ TrimEventsError

Spec == Init /\ [][Next]_vars

(***************************************************************************)
(* Calls that run at the same time, each on its own connection and in its  *)
(* own transaction.  A statement of a transaction reads the committed rows *)
(* and the rows the transaction wrote itself; what it writes stays private *)
(* until the transaction commits.  The id sequences and the clock are      *)
(* shared.                                                                 *)
(***************************************************************************)
\* the variables of the calls that run one after another
seqvars == <<tx, pc, call, local, pre, errored, repeat, ingested, made>>

\* the analysis of version v: its summary fields, highlight list, news and events go
\* together; the two versions have the same (sentiment, rationale) and the url u1
VersionSentiment(v)  == IF v = 1 THEN BaseSentiment
                        ELSE Sentiment("Bullish", "strong earnings", None)
VersionHighlights(v) == IF v = 1 THEN <<"h1">> ELSE <<"h2", "h1">>
VersionNews(v)       == IF v = 1 THEN <<NewsData("u1", 1, D_iso)>>
                        ELSE <<NewsData("u1", 2, D_us), NewsData("u2", 1, D_fuzzy)>>
VersionEvents(v)     == IF v = 1 THEN <<>> ELSE <<EventData(1, D_fuzzy)>>

VersionAnalysis(v) ==
    Analysis(VersionSentiment(v), SummaryFields(v), VersionHighlights(v),
             VersionNews(v), VersionEvents(v))

ConcurrentCalls ==
    { Call(sec, VersionAnalysis(v), NoOverride, NoOverride, FALSE) :
        sec \in Securities, v \in {1, 2} }

\* the rows of a store, without the id sequences
Rows(store) ==
    [ sentiments |-> store.sentiments, summaries |-> store.summaries,
      highlights |-> store.highlights, news |-> store.news, events |-> store.events ]

\* the committed store with the writes of a transaction applied: what the
\* transaction reads, and what its commit leaves
Overlay(committed, add, del) ==
    [ sentiments |-> (committed.sentiments \ del.sentiments) \cup add.sentiments,
      summaries  |-> (committed.summaries \ del.summaries) \cup add.summaries,
      highlights |-> (committed.highlights \ del.highlights) \cup add.highlights,
      news       |-> (committed.news \ del.news) \cup add.news,
      events     |-> (committed.events \ del.events) \cup add.events,
      seq        |-> committed.seq ]

\* the rows a transaction has written that the committed store does not hold
Added(committed, working) ==
    [ sentiments |-> working.sentiments \ committed.sentiments,
      summaries  |-> working.summaries \ committed.summaries,
      highlights |-> working.highlights \ committed.highlights,
      news       |-> working.news \ committed.news,
      events     |-> working.events \ committed.events ]

\* the committed rows a transaction has deleted or replaced
Deleted(committed, working) ==
    [ sentiments |-> committed.sentiments \ working.sentiments,
      summaries  |-> committed.summaries \ working.summaries,
      highlights |-> committed.highlights \ working.highlights,
      news       |-> committed.news \ working.news,
      events     |-> committed.events \ working.events ]

\* the store as the call of connection p reads it
View(p) == Overlay(db, proc[p].add, proc[p].del)

InFlight(p) == proc[p].pc \notin {"idle", "done", "failed"}

\* no transaction: every statement is committed as it is executed
Isolate_autocommit(committed, working) == working

\* the committed store after a statement of a running transaction left its view
\* as `working`: the rows stay private, only the id sequences have moved
Isolate(committed, working) == [committed EXCEPT !.seq = working.seq]

\* no row lock and no unique index on the security of a summary
SummaryLocked_never(p, security) == FALSE

\* another running transaction has inserted or updated the summary row of the
\* security and not yet ended: the unique index of the one-to-one field and the
\* row lock of update_or_create make the statement of p wait for it
SummaryLocked(p, security) ==
    \E q \in Procs \ {p} : InFlight(q) /\ security \in proc[q].locked

\* a statement of the call of p left its view as `after`
Wrote(p, after, next, loc) ==
    /\ proc' = [proc EXCEPT ![p].add = Added(db, after), ![p].del = Deleted(db, after),
                            ![p].pc = next, ![p].local = loc,
                            ![p].locked = {r.security : r \in {x \in after.summaries :
                                                              x.id = loc.news_summary}}]
    /\ db' = Isolate(db, after)

\* the exception leaves the call of p: its transaction is rolled back
CRaise(p) ==
    /\ proc' = [proc EXCEPT ![p].pc = "failed", ![p].errored = proc[p].pc,
                            ![p].add = NoWrites, ![p].del = NoWrites, ![p].locked = {}]
    /\ db' = Rollback(db, View(p))
    /\ UNCHANGED <<clock, ncalls, seqvars, batch, folio>>

\* connection p calls save_analysis_to_db
CBegin(p, c) ==
    /\ ~InFlight(p)
    /\ ncalls < MaxConcurrentCalls
    /\ ncalls' = ncalls + 1
    /\ proc' = [q \in Procs |->
                  IF q = p
                  THEN [IdleProc EXCEPT !.pc = "sentiment", !.call = c,
                                        !.overlap = \E o \in Procs \ {p} : InFlight(o)]
                  ELSE IF InFlight(q) THEN [proc[q] EXCEPT !.overlap = TRUE]
                  ELSE proc[q]]
    /\ UNCHANGED <<db, clock, seqvars, batch, folio>>

CResolveSentiment(p) ==
    /\ proc[p].pc = "sentiment"
    /\ LET r == get_or_create(View(p), proc[p].call.analysis.overall_sentiment) IN
       IF r.raised THEN CRaise(p)
       ELSE /\ Wrote(p, r.store, "summary", [proc[p].local EXCEPT !.sentiment = r.id])
            /\ UNCHANGED <<clock, ncalls, seqvars, batch, folio>>

CUpsertSummary(p) ==
    /\ proc[p].pc = "summary"
    /\ ~SummaryLocked(p, proc[p].call.security)
    /\ LET r == update_or_create(View(p), proc[p].call.security,
                    SummaryDefaults(proc[p].call.analysis, proc[p].local.sentiment)) IN
       IF r.raised THEN CRaise(p)
       ELSE /\ Wrote(p, r.store, "highlights", [proc[p].local EXCEPT !.news_summary = r.id])
            /\ UNCHANGED <<clock, ncalls, seqvars, batch, folio>>

CReplaceHighlights(p) ==
    /\ proc[p].pc = "highlights"
    /\ Wrote(p, create_highlights(delete_highlights(View(p), proc[p].local.news_summary),
                                  proc[p].local.news_summary,
                                  proc[p].call.analysis.key_highlights),
             "news", proc[p].local)
    /\ UNCHANGED <<clock, ncalls, seqvars, batch, folio>>

CMergeNews(p) ==
    /\ proc[p].pc = "news"
    /\ LET r == add_news_items(View(p), proc[p].call.security,
                               proc[p].call.analysis.recent_news, 1, clock) IN
       IF r.raised THEN CRaise(p)
       ELSE /\ Wrote(p, r.store, IF proc[p].call.skip_cleanup THEN "events" ELSE "trim_news",
                     proc[p].local)
            /\ clock' = r.clock
            /\ UNCHANGED <<ncalls, seqvars, batch, folio>>

CTrimNews(p) ==
    /\ proc[p].pc = "trim_news"
    /\ LET mine  == OfSecurity(View(p).news, proc[p].call.security)
           limit == effective_max(proc[p].call.max_news_items, MAX_NEWS_ITEMS_PER_SECURITY)
       IN  \E ids \in oldest_items(mine, excess_count(Cardinality(mine), limit)) :
              Wrote(p, [View(p) EXCEPT !.news = delete_ids(@, ids)], "events", proc[p].local)
    /\ UNCHANGED <<clock, ncalls, seqvars, batch, folio>>

CAppendEvents(p) ==
    /\ proc[p].pc = "events"
    /\ LET r == add_events(View(p), proc[p].call.security,
                           proc[p].call.analysis.upcoming_events, 1, clock) IN
         /\ Wrote(p, r.store, IF proc[p].call.skip_cleanup THEN "commit" ELSE "trim_events",
                  proc[p].local)
         /\ clock' = r.clock
    /\ UNCHANGED <<ncalls, seqvars, batch, folio>>

CTrimEvents(p) ==
    /\ proc[p].pc = "trim_events"
    /\ LET mine  == OfSecurity(View(p).events, proc[p].call.security)
           limit == effective_max(proc[p].call.max_events, MAX_UPCOMING_EVENTS_PER_SECURITY)
       IN  \E ids \in oldest_items(mine, excess_count(Cardinality(mine), limit)) :
              Wrote(p, [View(p) EXCEPT !.events = delete_ids(@, ids)], "commit", proc[p].local)
    /\ UNCHANGED <<clock, ncalls, seqvars, batch, folio>>

\* the atomic block of p is left: its writes become the committed rows
CCommit(p) ==
    /\ proc[p].pc = "commit"
    /\ db' = View(p)
    /\ proc' = [proc EXCEPT ![p].pc = "done", ![p].add = NoWrites, ![p].del = NoWrites,
                            ![p].locked = {}]
    /\ UNCHANGED <<clock, ncalls, seqvars, batch, folio>>

\* a storage operation of a step of p raises (connectivity, lock wait timeout,
\* deadlock, serialization failure)
CStorageError(p) ==
    /\ proc[p].pc \in {"sentiment", "summary", "highlights", "news", "events", "commit"}
    /\ CRaise(p)

\* an operation of a cleanup function of p raises: logged and dropped
CCleanupCaught(p, at, next) ==
    /\ proc[p].pc = at
    /\ proc' = [proc EXCEPT ![p].pc = next]
    /\ UNCHANGED <<db, clock, ncalls, seqvars, batch, folio>>

ConcurrentNext ==
    \E p \in Procs :
        \/ \E c \in ConcurrentCalls : CBegin(p, c)
        \/ CResolveSentiment(p)
        \/ CUpsertSummary(p)
        \/ CReplaceHighlights(p)
        \/ CMergeNews(p)
        \/ CTrimNews(p)
        \/ CAppendEvents(p)
        \/ CTrimEvents(p)
        \/ CCommit(p)
        \/ CStorageError(p)
        \/ CCleanupCaught(p, "trim_news", "events")
        \/ CCleanupCaught(p, "trim_events", "commit")

SpecConcurrent == Init /\ [][ConcurrentNext]_vars

(***************************************************************************)
(* The update_news_summaries command: one run of Command.handle over a     *)
(* list of securities.  The save of a security runs through the steps of   *)
(* save_analysis_to_db above.                                              *)
(***************************************************************************)
\* the securities the command can find in the watchlists, in the order of the query
Watchlist == <<"AAPL", "MSFT", "NVDA", "TSLA">>

\* the choices of the model fields, and the lists validate_analysis checks against
SENTIMENT_CHOICES    == {"Bullish", "Bearish", "Neutral"}
CONFIDENCE_CHOICES   == {"High", "Medium", "Low"}
IMPACT_LEVEL_CHOICES == {"High", "Medium", "Low"}
CATEGORY_CHOICES     == {"Earnings", "Corporate_Actions", "Regulatory", "Strategic",
                         "Industry", "Economic"}
IMPORTANCE_CHOICES   == {"High", "Medium", "Low"}

\* a text that is empty after strip()
Blank == <<>>

\* the analyses the agent returns in a run
BatchAnalyses ==
    { Analysis(BaseSentiment, BaseSummary, BaseHighlights, BaseNews, BaseEvents),
      VersionAnalysis(2),
      Analysis(Sentiment("Mixed", "strong earnings", "High"),
               BaseSummary, BaseHighlights, <<>>, <<>>),
      Analysis(Sentiment("Bullish", "new product", "Certain"),
               BaseSummary, BaseHighlights, <<>>, <<>>),
      Analysis(BaseSentiment, BaseSummary, BaseHighlights,
               <<[NewsData("u4", 1, D_iso) EXCEPT !.impact_level = "Critical"]>>, <<>>),
      Analysis(BaseSentiment, BaseSummary, BaseHighlights,
               <<>>, <<[EventData(1, D_fuzzy) EXCEPT !.category = "Rumour"]>>),
      Analysis(BaseSentiment, BaseSummary, BaseHighlights,
               <<>>, <<[EventData(2, D_iso) EXCEPT !.importance = "Urgent"]>>),
      Analysis(BaseSentiment, [BaseSummary EXCEPT !.summary = Blank],
               BaseHighlights, <<>>, <<>>),
      Analysis(BaseSentiment, BaseSummary, BaseHighlights,
               <<NewsData("u3", 2, D_feb30)>>, <<>>) }

\* StockAnalysisService.validate_analysis
validate_analysis(analysis) ==
    /\ analysis.summary # Blank
    /\ analysis.executive_summary # Blank
    /\ analysis.positive_catalysts # Blank
    /\ analysis.risk_factors # Blank
    /\ analysis.disclaimer # Blank
    /\ analysis.overall_sentiment.sentiment # ""
    /\ analysis.overall_sentiment.sentiment \in {"Bullish", "Bearish", "Neutral"}
    /\ \A i \in 1..Len(analysis.recent_news) :
          analysis.recent_news[i].impact_level \in {"High", "Medium", "Low"}
    /\ \A i \in 1..Len(analysis.upcoming_events) :
          /\ analysis.upcoming_events[i].category \in
                {"Earnings", "Corporate_Actions", "Regulatory", "Strategic",
                 "Industry", "Economic"}
          /\ analysis.upcoming_events[i].importance \in {"High", "Medium", "Low"}

\* the options of a run: the defaults, small caps, --no-cleanup, --dry-run
BatchOptions ==
    { [dry_run |-> FALSE, max_news_items |-> max_news_items_default,
       max_events |-> max_events_default, no_cleanup |-> FALSE],
      [dry_run |-> FALSE, max_news_items |-> 1, max_events |-> 1, no_cleanup |-> FALSE],
      [dry_run |-> FALSE, max_news_items |-> max_news_items_default,
       max_events |-> max_events_default, no_cleanup |-> TRUE],
      [dry_run |-> TRUE, max_news_items |-> max_news_items_default,
       max_events |-> max_events_default, no_cleanup |-> FALSE] }

\* handle up to the loop: the options are read, the securities are found,
\* processed_count = 0, error_count = 0
BatchStart(o, n) ==
    /\ batch.stage = "off"
    /\ batch' = [NoBatch EXCEPT !.stage = "loop", !.securities = SubSeq(Watchlist, 1, n),
                                !.i = 1, !.dry_run = o.dry_run,
                                !.max_news_items = o.max_news_items,
                                !.max_events = o.max_events, !.no_cleanup = o.no_cleanup]
    /\ UNCHANGED <<db, clock, ncalls, seqvars, proc, folio>>

\* the loop has a security to process
InLoop == batch.stage = "loop" /\ batch.i <= Len(batch.securities)

Outcome(b, kind) == Append(b.outcome, [security |-> b.securities[b.i], kind |-> kind])

\* on to the next security with processed_count left as it is
on_success_uncounted(b, kind) ==
    [b EXCEPT !.outcome = Outcome(b, kind), !.i = @ + 1, !.stage = "loop"]

\* processed_count += 1, and on to the next security
on_success(b, kind) ==
    [b EXCEPT !.processed_count = @ + 1, !.outcome = Outcome(b, kind),
              !.i = @ + 1, !.stage = "loop"]

\* the error ends the loop (break in place of continue)
on_error_stop(b, kind) ==
    [b EXCEPT !.error_count = @ + 1, !.outcome = Outcome(b, kind),
              !.i = Len(b.securities) + 1, !.stage = "loop"]

\* error_count += 1; continue
on_error(b, kind) ==
    [b EXCEPT !.error_count = @ + 1, !.outcome = Outcome(b, kind),
              !.i = @ + 1, !.stage = "loop"]

\* if options["dry_run"]: processed_count += 1; continue
DryRun ==
    /\ InLoop
    /\ batch.dry_run
    /\ batch' = on_success([batch EXCEPT !.before = db], "dry")
    /\ UNCHANGED <<db, clock, ncalls, seqvars, proc, folio>>

\* get_stock_analysis returns None, or raises
AgentFails ==
    /\ InLoop
    /\ ~batch.dry_run
    /\ batch' = on_error([batch EXCEPT !.before = db], "no_analysis")
    /\ UNCHANGED <<db, clock, ncalls, seqvars, proc, folio>>

\* get_stock_analysis returns an analysis: it is validated and, when valid, the
\* atomic block is entered and save_analysis_to_db is called with the options
AgentReturns(a) ==
    /\ InLoop
    /\ ~batch.dry_run
    /\ IF ~validate_analysis(a)
       THEN /\ batch' = on_error([batch EXCEPT !.before = db], "invalid")
            /\ UNCHANGED <<db, clock, ncalls, seqvars, proc, folio>>
       ELSE /\ batch' = [batch EXCEPT !.stage = "saving", !.before = db]
            /\ call' = Call(batch.securities[batch.i], a, <<batch.max_news_items>>,
                            <<batch.max_events>>, batch.no_cleanup)
            /\ pc' = "sentiment"
            /\ tx' = db
            /\ pre' = db
            /\ local' = NoLocal
            /\ errored' = ""
            /\ repeat' = FALSE
            /\ made' = [made EXCEPT !.now = {}]
            /\ UNCHANGED <<db, clock, ncalls, ingested, proc, folio>>

\* save_analysis_to_db has returned and the atomic block is left
SaveReturned ==
    /\ batch.stage = "saving"
    /\ pc = "done"
    /\ batch' = on_success(batch, "saved")
    /\ UNCHANGED <<db, clock, ncalls, seqvars, proc, folio>>

\* except Exception: error_count += 1; continue
SaveRaised ==
    /\ batch.stage = "saving"
    /\ pc = "failed"
    /\ batch' = on_error(batch, "raised")
    /\ UNCHANGED <<db, clock, ncalls, seqvars, proc, folio>>

\* the loop is over: the final summary is written
Finish ==
    /\ batch.stage = "loop"
    /\ batch.i > Len(batch.securities)
    /\ batch' = [batch EXCEPT !.stage = "end"]
    /\ UNCHANGED <<db, clock, ncalls, seqvars, proc, folio>>

BatchNext ==
    \/ \E o \in BatchOptions : \E n \in 1..Min(MaxBatch, Len(Watchlist)) : BatchStart(o, n)
    \/ DryRun
    \/ AgentFails
    \/ \E a \in BatchAnalyses : AgentReturns(a)
    \/ ResolveSentiment
    \/ UpsertSummary
    \/ ReplaceHighlights
    \/ MergeNews
    \/ TrimNews
    \/ AppendEvents
    \/ TrimEvents
    \/ Commit
    \/ StorageError
    \/ TrimNewsError
    \/ TrimEventsError
    \/ SaveReturned
    \/ SaveRaised
    \/ Finish

SpecBatch == Init /\ [][BatchNext]_vars

(***************************************************************************)
(* PortfolioService.calculate_portfolio_composition over the Holding rows  *)
(* of the users and the SecurityFundamentals rows of the securities.       *)
(* Decimal amounts are whole numbers here, percentages are in hundredths   *)
(* of a percent.                                                           *)
(***************************************************************************)
Users == {"alice", "bob"}

\* the quantity, total_cost and current_price values of the rows
Quantities == {1, 2}
TotalCosts == {0, 100}
Prices     == {<<>>, <<50>>, <<150>>}

\* a SecurityFundamentals row; current_price is <<>> when null
Fundamentals(current_price) == [present |-> TRUE, current_price |-> current_price]

\* a Holding row: (user, security) is unique
HoldingRow(user, security, quantity, total_cost) ==
    [user |-> user, security |-> security, quantity |-> quantity, total_cost |-> total_cost]

\* Holding.objects.filter(user=user)
OfUser(holdings, user) == {h \in holdings : h.user = user}

\* Holding.current_value: security.fundamentals raises when the security has no
\* SecurityFundamentals row; the value is None (<<>>) when current_price is null or 0
current_value(h, fundamentals) ==
    LET f == fundamentals[h.security] IN
    IF ~f.present THEN [raised |-> TRUE, value |-> <<>>]
    ELSE IF f.current_price # <<>> /\ f.current_price[1] # 0
         THEN [raised |-> FALSE, value |-> <<h.quantity * f.current_price[1]>>]
         ELSE [raised |-> FALSE, value |-> <<>>]

\* Holding.unrealized_gain_loss or Decimal('0'), for a holding whose security has
\* fundamentals
unrealized_gain_loss_or_0(h, fundamentals) ==
    LET v == current_value(h, fundamentals).value IN
    IF v # <<>> /\ v[1] # 0 THEN v[1] - h.total_cost ELSE 0

\* current_value if current_value is not None else holding.total_cost
value_for_calculation(h, fundamentals) ==
    LET v == current_value(h, fundamentals).value IN
    IF v # <<>> THEN v[1] ELSE h.total_cost

\* round(float(a / b * 100), 2) in hundredths of a percent, for b > 0: the
\* nearest whole number to 10000 * a / b, the even one of two equally near
percent(a, b) ==
    LET n == 10000 * a
        q == n \div b
        r == n % b
    IN  IF 2 * r < b THEN q
        ELSE IF 2 * r > b THEN q + 1
        ELSE IF q % 2 = 0 THEN q ELSE q + 1

\* sum(...) of a list of amounts
RECURSIVE sum(_)
sum(amounts) == IF amounts = <<>> THEN 0 ELSE Head(amounts) + sum(Tail(amounts))

\* get_user_holdings_queryset: the holdings of the user by falling total_cost;
\* holdings of equal total_cost come in an order the database chooses
get_user_holdings_queryset(holdings, user) ==
    LET mine == OfUser(holdings, user) IN
    { q \in [1..Cardinality(mine) -> mine] :
        /\ \A i, j \in 1..Cardinality(mine) : q[i] = q[j] => i = j
        /\ \A i, j \in 1..Cardinality(mine) : i < j => q[i].total_cost >= q[j].total_cost }

\* _calculate_portfolio_summary
calculate_portfolio_summary(q, fundamentals, total_portfolio_value) ==
    LET total_cost == sum([i \in 1..Len(q) |-> q[i].total_cost])
        total_gain == sum([i \in 1..Len(q) |->
                              unrealized_gain_loss_or_0(q[i], fundamentals)])
    IN  Summary(total_portfolio_value, total_cost, total_gain,
                IF total_cost > 0 THEN percent(total_gain, total_cost) ELSE 0,
                Len(q))

\* the body of calculate_portfolio_composition for the holdings as the queryset
\* yields them
composition(user, q, fundamentals) ==
    IF \E i \in 1..Len(q) : current_value(q[i], fundamentals).raised
    THEN [NoResult EXCEPT !.user = user, !.raised = TRUE]
    ELSE LET Value(h) == value_for_calculation(h, fundamentals)
             total_portfolio_value == sum([i \in 1..Len(q) |-> Value(q[i])])
         IN  [ user     |-> user,
               raised   |-> FALSE,
               holdings |-> [ i \in 1..Len(q) |->
                                [ holding |-> q[i],
                                  current_value |-> Value(q[i]),
                                  portfolio_weight_percent |->
                                      IF total_portfolio_value > 0
                                      THEN percent(Value(q[i]), total_portfolio_value)
                                      ELSE 0 ] ],
               summary  |-> calculate_portfolio_summary(q, fundamentals,
                                                        total_portfolio_value) ]

\* PortfolioService.calculate_portfolio_composition(user): what it can return
calculate_portfolio_composition(holdings, fundamentals, user) ==
    { composition(user, q, fundamentals) : q \in get_user_holdings_queryset(holdings, user) }

\* the variables of the ingestion calls and of the command
ingestvars == <<db, clock, ncalls, seqvars, proc, batch>>

\* a Holding row is created for a user
CreateHolding(u, s, quantity, total_cost) ==
    /\ ~\E h \in folio.holdings : h.user = u /\ h.security = s
    /\ folio' = [folio EXCEPT !.holdings = @ \cup {HoldingRow(u, s, quantity, total_cost)},
                              !.result = NoResult]
    /\ UNCHANGED ingestvars

\* the quantity and the total_cost of a Holding row are changed
ChangeHolding(h, quantity, total_cost) ==
    /\ h \in folio.holdings
    /\ HoldingRow(h.user, h.security, quantity, total_cost) # h
    /\ folio' = [folio EXCEPT !.holdings = (@ \ {h}) \cup
                                  {HoldingRow(h.user, h.security, quantity, total_cost)},
                              !.result = NoResult]
    /\ UNCHANGED ingestvars

\* a Holding row is deleted
DeleteHolding(h) ==
    /\ h \in folio.holdings
    /\ folio' = [folio EXCEPT !.holdings = @ \ {h}, !.result = NoResult]
    /\ UNCHANGED ingestvars

\* the SecurityFundamentals row of a security is created or updated
SetFundamentals(s, current_price) ==
    /\ folio.fundamentals[s] # Fundamentals(current_price)
    /\ folio' = [folio EXCEPT !.fundamentals[s] = Fundamentals(current_price),
                              !.result = NoResult]
    /\ UNCHANGED ingestvars

\* calculate_portfolio_composition(user) is called and returns, or raises
Calculate(u) ==
    /\ \E r \in calculate_portfolio_composition(folio.holdings, folio.fundamentals, u) :
          folio' = [folio EXCEPT !.result = r]
    /\ UNCHANGED ingestvars

PortfolioNext ==
    \/ \E u \in Users, s \in Securities, quantity \in Quantities, total_cost \in TotalCosts :
          CreateHolding(u, s, quantity, total_cost)
    \/ \E h \in folio.holdings, quantity \in Quantities, total_cost \in TotalCosts :
          ChangeHolding(h, quantity, total_cost)
    \/ \E h \in folio.holdings : DeleteHolding(h)
    \/ \E s \in Securities, current_price \in Prices : SetFundamentals(s, current_price)
    \/ \E u \in Users : Calculate(u)

SpecPortfolio == Init /\ [][PortfolioNext]_vars

(***************************************************************************)
(* Properties.                                                             *)
(***************************************************************************)
SummariesOf(store, security) == OfSecurity(store.summaries, security)

HighlightsOf(store, security) ==
    {h \in store.highlights :
        \E r \in SummariesOf(store, security) : h.security_news_summary = r.id}

\* the highlights of a security as (position, text) pairs
HighlightPairs(store, security) ==
    {<<h.order, h.highlight>> : h \in HighlightsOf(store, security)}

Pair(s) == <<s.sentiment, s.rationale>>

Urls(recent_news) == {recent_news[i].url : i \in 1..Len(recent_news)}

NewsCap   == effective_max(call.max_news_items, MAX_NEWS_ITEMS_PER_SECURITY)
EventsCap == effective_max(call.max_events, MAX_UPCOMING_EVENTS_PER_SECURITY)

\* C1: no security has more than one SecurityNewsSummary row in the committed
\* store, and every security with a committed ingestion has exactly one.
C1_OneSummaryPerSecurity ==
    \A sec \in Securities :
        /\ Cardinality(SummariesOf(db, sec)) <= 1
        /\ sec \in ingested => Cardinality(SummariesOf(db, sec)) = 1

\* a second ingestion for a security that already had a summary has committed
C1_Witness ==
    /\ pc = "done"
    /\ ncalls = 2
    /\ SummariesOf(pre, call.security) # {}
    /\ Cardinality(SummariesOf(db, call.security)) = 1

\* C2: when a call fails, whatever its earlier steps wrote, the committed store is
\* the store of before the call, in every table.
C2_FailureLeavesStoreUntouched ==
    pc = "failed" => db = pre /\ tx = pre

\* a call failed in highlight replacement, after its upsert had overwritten the
\* summary of a security that had one with other content
C2_Witness ==
    /\ pc = "failed"
    /\ errored = "highlights"
    /\ \E r \in SummariesOf(pre, call.security) :
          r.executive_summary # call.analysis.executive_summary
    /\ db = pre

\* C3: an exception raised in any step, the two cleanup steps included, ends the
\* call in failure with its writes rolled back.
C3_AnyErrorAborts ==
    errored # "" => pc = "failed" /\ db = pre

\* C4: no two committed NewsItem rows have the same url.
C4_UrlsUnique ==
    \A r, q \in db.news : r.url = q.url => r = q

\* a call for one security carried a url stored under the other security, and committed
C4_Witness ==
    /\ pc = "done"
    /\ \E r \in pre.news :
          /\ r.security # call.security
          /\ r.url \in Urls(call.analysis.recent_news)
          /\ r \in db.news

\* C5: no two OverallSentiment rows have the same (sentiment, rationale), and
\* summaries whose sentiments have the same pair reference the same row.
C5_SentimentPairsUnique ==
    /\ \A r, q \in db.sentiments : Pair(r) = Pair(q) => r = q
    /\ \A a, b \in db.summaries :
          (\E r, q \in db.sentiments :
              /\ r.id = a.overall_sentiment
              /\ q.id = b.overall_sentiment
              /\ Pair(r) = Pair(q))
          => a.overall_sentiment = b.overall_sentiment

\* the second call carried, for the other security, the pair of the first call
C5_Witness ==
    /\ pc = "done"
    /\ \E a \in SummariesOf(db, call.security) :
       \E b \in db.summaries :
          /\ b.security # call.security
          /\ a.overall_sentiment = b.overall_sentiment
          /\ \E r \in db.sentiments :
                r.id = a.overall_sentiment /\ Pair(r) = Pair(call.analysis.overall_sentiment)

\* C6: after a committed call the highlights of the security's summary are the
\* call's key_highlights, in order, at positions 0..len-1, and nothing else.
C6_HighlightsReplaced ==
    pc = "done" =>
        LET L == call.analysis.key_highlights
            H == HighlightsOf(db, call.security)
        IN  /\ Cardinality(H) = Len(L)
            /\ \A i \in 1..Len(L) :
                  \E h \in H : h.order = i - 1 /\ h.highlight = L[i]

\* a call replaced two highlights by one other highlight
C6_Witness ==
    /\ pc = "done"
    /\ Cardinality(HighlightsOf(pre, call.security)) = 2
    /\ Len(call.analysis.key_highlights) = 1
    /\ <<0, call.analysis.key_highlights[1]>> \notin HighlightPairs(pre, call.security)
    /\ Cardinality(HighlightsOf(db, call.security)) = 1

\* C7: after a committed call the summary row of the security holds the call's
\* fields and references the sentiment row of the call's pair; a row that existed
\* is overwritten in place.
C7_SummaryLastWriteWins ==
    pc = "done" =>
        \E r \in SummariesOf(db, call.security) :
            /\ r.executive_summary = call.analysis.executive_summary
            /\ r.summary = call.analysis.summary
            /\ r.positive_catalysts = call.analysis.positive_catalysts
            /\ r.risk_factors = call.analysis.risk_factors
            /\ r.key_metrics = call.analysis.key_metrics
            /\ r.disclaimer = call.analysis.disclaimer
            /\ \E s \in db.sentiments :
                  s.id = r.overall_sentiment /\ Pair(s) = Pair(call.analysis.overall_sentiment)
            /\ \A o \in SummariesOf(pre, call.security) : o.id = r.id

\* a call overwrote a summary that had other fields and another sentiment
C7_Witness ==
    /\ pc = "done"
    /\ \E o \in SummariesOf(pre, call.security) :
       \E r \in SummariesOf(db, call.security) :
          /\ o.summary # r.summary
          /\ o.overall_sentiment # r.overall_sentiment
          /\ r.summary = call.analysis.summary

\* what a cleanup of the rows `before` of one security down to `cap` may leave:
\* `after` of that security, the rest of the table as it was
Trimmed(before, after, rest_before, rest_after, cap) ==
    LET count   == Cardinality(before)
        deleted == before \ after
    IN  /\ after \subseteq before
        /\ rest_after = rest_before
        /\ count > cap =>
              /\ cap >= 0 => Cardinality(deleted) = count - cap
              /\ cap <= 0 => after = {}
              /\ \A d \in deleted : \A k \in after : d.created_at < k.created_at
        /\ count <= cap => after = before

\* C8: a cleanup that runs without an exception deletes, when the security has
\* count > cap rows, the count - cap rows created first (all rows when cap <= 0)
\* and keeps the rows created last; when count <= cap it deletes nothing.
C8_TrimDeletesOldest ==
    [][ /\ (pc = "trim_news" /\ pc' = "events" /\ errored' = errored) =>
              Trimmed(OfSecurity(tx.news, call.security),
                      OfSecurity(tx'.news, call.security),
                      tx.news \ OfSecurity(tx.news, call.security),
                      tx'.news \ OfSecurity(tx'.news, call.security),
                      NewsCap)
        /\ (pc = "trim_events" /\ pc' = "commit" /\ errored' = errored) =>
              Trimmed(OfSecurity(tx.events, call.security),
                      OfSecurity(tx'.events, call.security),
                      tx.events \ OfSecurity(tx.events, call.security),
                      tx'.events \ OfSecurity(tx'.events, call.security),
                      EventsCap)
      ]_vars

\* the news cleanup with cap 1 has just deleted a committed row of the security and
\* kept one row, created later
C8_Witness ==
    /\ pc = "events"
    /\ errored = ""
    /\ ~call.skip_cleanup
    /\ NewsCap = 1
    /\ \E d \in OfSecurity(db.news, call.security) :
          /\ d \notin tx.news
          /\ \E k \in tx.news :
                /\ OfSecurity(tx.news, call.security) = {k}
                /\ d.created_at < k.created_at

\* C9: after a committed call with cleanup on, the security has at most
\* max(cap, 0) NewsItem rows and at most max(cap, 0) UpcomingEvent rows.
C9_CapsHoldAfterCall ==
    (pc = "done" /\ ~call.skip_cleanup) =>
        /\ Cardinality(OfSecurity(db.news, call.security)) <= Max(NewsCap, 0)
        /\ Cardinality(OfSecurity(db.events, call.security)) <= Max(EventsCap, 0)

\* the summary row and the highlight list of the security are those of before the call
SameSummaryAndHighlights ==
    /\ Cardinality(SummariesOf(db, call.security)) = 1
    /\ SummariesOf(db, call.security) = SummariesOf(pre, call.security)
    /\ HighlightPairs(db, call.security) = HighlightPairs(pre, call.security)
    /\ Cardinality(HighlightsOf(db, call.security))
         = Cardinality(HighlightsOf(pre, call.security))

\* C10 as first stated, on repeated calls in which no exception was raised and whose
\* first call left the security within its cap: the second call leaves the summary,
\* the highlight list and the set of NewsItem rows as the first call left them.
C10_RepeatChangesNothing ==
    ( /\ pc = "done"
      /\ repeat
      /\ errored = ""
      /\ Cardinality(OfSecurity(pre.news, call.security)) <= Max(NewsCap, 0) ) =>
        /\ SameSummaryAndHighlights
        /\ db.news = pre.news

\* C10, amended: a repeated call leaves the summary row and the highlight list as
\* they were; it leaves the NewsItem rows as they were when every url of the list
\* was still stored at its start and the security was then within the cap (or
\* cleanup is skipped).
C10_RepeatKeepsStoredNews ==
    (pc = "done" /\ repeat) =>
        /\ SameSummaryAndHighlights
        /\ ( /\ Urls(call.analysis.recent_news) \subseteq {r.url : r \in pre.news}
             /\ \/ call.skip_cleanup
                \/ Cardinality(OfSecurity(pre.news, call.security)) <= NewsCap )
           => db.news = pre.news

\* a call with two news items and two highlights was repeated and left the rows
\* the first call had stored
C10_Witness ==
    /\ pc = "done"
    /\ repeat
    /\ Len(call.analysis.recent_news) = 2
    /\ Cardinality(OfSecurity(pre.news, call.security)) = 2
    /\ Cardinality(HighlightsOf(pre, call.security)) = 2
    /\ db.news = pre.news

\* the NewsItem rows of a store that carry a url
RowsWithUrl(store, url) == {r \in store.news : r.url = url}

\* the urls of a list for which the store holds a row
StoredUrls(store, recent_news) == {u \in Urls(recent_news) : RowsWithUrl(store, u) # {}}

\* C11: in the news step, every item whose url is stored anywhere (under any
\* security) is skipped: the rows with that url stay exactly as they were (same
\* security, same attributes), the number of rows grows only by the number of
\* distinct urls that were not stored, and when every url of the list is stored
\* the step raises nothing and writes nothing.
C11_StoredUrlSkipped ==
    [][ pc = "news" =>
          LET L      == call.analysis.recent_news
              stored == StoredUrls(tx, L)
              r      == add_news_items(tx, call.security, L, 1, clock)
          IN  /\ \A u \in stored : RowsWithUrl(tx', u) = RowsWithUrl(tx, u)
              /\ pc' # "failed" =>
                    Cardinality(tx'.news)
                      = Cardinality(tx.news) + Cardinality(Urls(L) \ stored)
              /\ stored = Urls(L) => ~r.raised /\ r.store = tx
      ]_vars

\* the news step has just skipped an item whose url is stored under the other
\* security with another headline, and the stored row is as it was
C11_Witness ==
    /\ pc = "trim_news"
    /\ \E r \in pre.news :
          /\ r.security # call.security
          /\ \E i \in 1..Len(call.analysis.recent_news) :
                /\ call.analysis.recent_news[i].url = r.url
                /\ call.analysis.recent_news[i].headline # r.headline
          /\ RowsWithUrl(tx, r.url) = {r}

\* the urls of the NewsItem rows a step creates in the working store
CreatedUrls(before, after) == {n.url : n \in after.news \ before.news}

\* a NewsItem row is never modified, and leaves the working store only in the cleanup
\* of its security (or with the rollback of the call that created it); it leaves
\* the committed store only with the commit of a call that trimmed it
NeverModifiedTrimOnly ==
    /\ \A r \in tx.news : \A q \in tx'.news : r.id = q.id => r = q
    /\ \A r \in db.news : \A q \in db'.news : r.id = q.id => r = q
    /\ \A r \in tx.news \ tx'.news :
          \/ pc = "trim_news" /\ pc' = "events" /\ r.security = call.security
          \/ pc' = "failed" /\ r \notin db.news
    /\ \A r \in db.news \ db'.news :
          /\ pc = "commit" /\ pc' = "done"
          /\ r.security = call.security
          /\ ~call.skip_cleanup

\* C12 as first stated: over the whole history a row is created for a url at most
\* once (never for a url a committed call already created a row for, and one row
\* per url within a call); a row is never modified and is removed only by trimming.
C12_CreatedOncePerUrl ==
    [][ /\ (pc = "news" /\ pc' # "failed") =>
              /\ CreatedUrls(tx, tx') \cap made.done = {}
              /\ Cardinality(tx'.news \ tx.news) = Cardinality(CreatedUrls(tx, tx'))
        /\ NeverModifiedTrimOnly
      ]_vars

\* C12, amended: a row is created for a url only when no row with that url is
\* stored at that moment, one row per url; a row is never modified and is removed
\* only by trimming.
C12_CreatedWhenNotStored ==
    [][ /\ (pc = "news" /\ pc' # "failed") =>
              /\ CreatedUrls(tx, tx') \cap {n.url : n \in tx.news} = {}
              /\ Cardinality(tx'.news \ tx.news) = Cardinality(CreatedUrls(tx, tx'))
        /\ pc # "news" => tx'.news \subseteq tx.news \/ pc' = "failed"
        /\ NeverModifiedTrimOnly
      ]_vars

\* a url for which a committed call had created a row, since trimmed away, has got
\* a row again from the running call
C12_Witness ==
    /\ pc \in {"trim_news", "events"}
    /\ errored = ""
    /\ \E u \in made.now \cap made.done :
          /\ RowsWithUrl(pre, u) = {}
          /\ Cardinality(RowsWithUrl(tx, u)) = 1

\* C13: the events step inserts one row per incoming event with no existence
\* check: the security's UpcomingEvent count grows by exactly the length of the
\* list, every new row is a distinct row, the rows that were there stay, and the
\* events of the other securities are untouched.
C13_EventsAlwaysAppended ==
    [][ (pc = "events" /\ pc' # "failed") =>
          LET L      == call.analysis.upcoming_events
              before == OfSecurity(tx.events, call.security)
              after  == OfSecurity(tx'.events, call.security)
          IN  /\ before \subseteq after
              /\ Cardinality(after) = Cardinality(before) + Len(L)
              /\ Cardinality({e.id : e \in after}) = Cardinality(after)
              /\ \A i \in 1..Len(L) :
                    \E e \in after \ before :
                       /\ e.event = L[i].event
                       /\ e.date = L[i].date
                       /\ e.category = L[i].category
                       /\ e.importance = L[i].importance
              /\ tx'.events \ after = tx.events \ before
      ]_vars

\* the same two events were ingested again for the security, which now holds each
\* of them in two distinct rows
C13_Witness ==
    /\ pc \in {"trim_events", "commit"}
    /\ repeat
    /\ Len(call.analysis.upcoming_events) = 2
    /\ Cardinality(OfSecurity(pre.events, call.security)) = 2
    /\ Cardinality(OfSecurity(tx.events, call.security)) = 4
    /\ \A e \in OfSecurity(pre.events, call.security) :
          \E f \in tx.events \ pre.events :
             f.security = e.security /\ f.event = e.event /\ f.date = e.date

\* the last calls of connections p and q ran at the same time and both committed
BothCommitted(p, q) ==
    /\ p # q
    /\ proc[p].pc = "done" /\ proc[q].pc = "done"
    /\ proc[p].overlap /\ proc[q].overlap

\* C14: when two calls that ran at the same time with the same (sentiment,
\* rationale) have both committed, exactly one OverallSentiment row has that pair;
\* and get_or_create never raises in the sentiment step of any call, theirs or a
\* later one.
C14_ConcurrentPairStoredOnce ==
    /\ \A p, q \in Procs :
          ( /\ BothCommitted(p, q)
            /\ Pair(proc[p].call.analysis.overall_sentiment)
                 = Pair(proc[q].call.analysis.overall_sentiment) ) =>
             Cardinality({r \in db.sentiments :
                            Pair(r) = Pair(proc[p].call.analysis.overall_sentiment)}) = 1
    /\ \A p \in Procs :
          proc[p].pc = "sentiment" =>
             ~get_or_create(View(p), proc[p].call.analysis.overall_sentiment).raised

\* C15: when two calls that ran at the same time and carried the same url have both
\* committed, exactly one NewsItem row has that url; and the news step of a call
\* never raises.
C15_ConcurrentUrlStoredOnce ==
    /\ \A p, q \in Procs :
          BothCommitted(p, q) =>
             \A u \in Urls(proc[p].call.analysis.recent_news)
                        \cap Urls(proc[q].call.analysis.recent_news) :
                Cardinality(RowsWithUrl(db, u)) = 1
    /\ \A p \in Procs :
          proc[p].pc = "news" =>
             ~add_news_items(View(p), proc[p].call.security,
                             proc[p].call.analysis.recent_news, 1, clock).raised

\* every summary row of the store has the fields of one version of the analysis,
\* and the highlights of its security are the highlight list of that version
SummaryMatchesHighlights(store) ==
    \A r \in store.summaries :
        \E v \in {1, 2} :
            /\ r.summary = SummaryFields(v).summary
            /\ r.executive_summary = SummaryFields(v).executive_summary
            /\ r.positive_catalysts = SummaryFields(v).positive_catalysts
            /\ r.risk_factors = SummaryFields(v).risk_factors
            /\ r.key_metrics = SummaryFields(v).key_metrics
            /\ r.disclaimer = SummaryFields(v).disclaimer
            /\ HighlightPairs(store, r.security)
                 = {<<i - 1, VersionHighlights(v)[i]>> : i \in 1..Len(VersionHighlights(v))}
            /\ Cardinality(HighlightsOf(store, r.security)) = Len(VersionHighlights(v))

\* C16: the committed rows, which are what every other connection reads, change
\* only when a call commits, and then by all the writes of that call at once; at
\* every moment the committed summary of a security and its committed highlights
\* are those of one and the same call.
C16_NoPartialWriteVisible ==
    [][ /\ Rows(db') # Rows(db) =>
              \E p \in Procs :
                 /\ proc[p].pc = "commit"
                 /\ proc'[p].pc = "done"
                 /\ Rows(db') = Rows(View(p))
        /\ SummaryMatchesHighlights(db')
      ]_vars

\* a call has overwritten the summary of a security in its transaction and not yet
\* replaced the highlights, while the committed store still shows the summary and
\* the two highlights of the other version
C16_Witness ==
    \E p \in Procs :
        /\ proc[p].pc = "highlights"
        /\ \E r \in SummariesOf(db, proc[p].call.security) :
              /\ r.summary # proc[p].call.analysis.summary
              /\ \E w \in SummariesOf(View(p), proc[p].call.security) :
                    w.id = r.id /\ w.summary = proc[p].call.analysis.summary
        /\ Cardinality(HighlightsOf(db, proc[p].call.security)) = 2
        /\ Len(proc[p].call.analysis.key_highlights) = 1

\* the summary row and the highlights of the security of call c are those of c
HoldsExactly(c) ==
    /\ \E r \in SummariesOf(db, c.security) :
          /\ r.summary = c.analysis.summary
          /\ r.executive_summary = c.analysis.executive_summary
          /\ r.positive_catalysts = c.analysis.positive_catalysts
          /\ r.risk_factors = c.analysis.risk_factors
          /\ r.key_metrics = c.analysis.key_metrics
          /\ r.disclaimer = c.analysis.disclaimer
    /\ HighlightPairs(db, c.security)
         = {<<i - 1, c.analysis.key_highlights[i]>> : i \in 1..Len(c.analysis.key_highlights)}
    /\ Cardinality(HighlightsOf(db, c.security)) = Len(c.analysis.key_highlights)

\* C17: when two calls for the same security that ran at the same time have both
\* committed, the security has exactly one summary row, and its summary fields and
\* highlights are entirely those of one of the two calls, each position once.
C17_ConcurrentSameEntity ==
    \A p, q \in Procs :
        (BothCommitted(p, q) /\ proc[p].call.security = proc[q].call.security) =>
            /\ Cardinality(SummariesOf(db, proc[p].call.security)) = 1
            /\ HoldsExactly(proc[p].call) \/ HoldsExactly(proc[q].call)

\* two calls for the same security with different analyses ran at the same time and
\* both committed
C17_Witness ==
    \E p, q \in Procs :
        /\ BothCommitted(p, q)
        /\ proc[p].call.security = proc[q].call.security
        /\ proc[p].call.analysis.summary # proc[q].call.analysis.summary
        /\ HoldsExactly(proc[q].call)
        /\ ~HoldsExactly(proc[p].call)

FailureKinds == {"no_analysis", "invalid", "raised"}

\* C18: in a run, whenever a security fails (no analysis, invalid analysis, or an
\* exception in the save) the committed store is the one of before that security
\* and stays so, the failure adds one to error_count and nothing to
\* processed_count, and the loop goes on with the next security; at the end of
\* the run every security of the list has been handled, in order, and error_count
\* is the number of failures.
C18_FailureDoesNotStopRun ==
    /\ [][ batch'.error_count # batch.error_count =>
              /\ batch'.error_count = batch.error_count + 1
              /\ batch'.processed_count = batch.processed_count
              /\ db = batch'.before
              /\ db' = db
              /\ batch'.i = batch.i + 1
              /\ batch'.stage = "loop"
              /\ batch'.outcome[batch.i].kind \in FailureKinds
         ]_vars
    /\ []( /\ (batch.stage = "saving" /\ pc = "failed") => db = batch.before
           /\ batch.error_count
                = Cardinality({k \in 1..Len(batch.outcome) :
                                 batch.outcome[k].kind \in FailureKinds})
           /\ batch.stage = "end" =>
                 /\ Len(batch.outcome) = Len(batch.securities)
                 /\ \A k \in 1..Len(batch.securities) :
                       batch.outcome[k].security = batch.securities[k] )

\* a run over three securities has ended: the first was saved, the save of the
\* second raised, the third was saved; the rows of the first are in the store
C18_Witness ==
    /\ batch.stage = "end"
    /\ Len(batch.securities) = 3
    /\ batch.outcome[1].kind = "saved"
    /\ batch.outcome[2].kind = "raised"
    /\ batch.outcome[3].kind = "saved"
    /\ batch.error_count = 1
    /\ SummariesOf(db, batch.securities[1]) # {}
    /\ SummariesOf(db, batch.securities[2]) = {}
    /\ SummariesOf(db, batch.securities[3]) # {}

\* the analysis carries a value outside the choices of its field
HasInvalidEnum(analysis) ==
    \/ analysis.overall_sentiment.sentiment \notin SENTIMENT_CHOICES
    \/ analysis.overall_sentiment.confidence_level \notin CONFIDENCE_CHOICES \cup {None}
    \/ \E i \in 1..Len(analysis.recent_news) :
          analysis.recent_news[i].impact_level \notin IMPACT_LEVEL_CHOICES
    \/ \E i \in 1..Len(analysis.upcoming_events) :
          \/ analysis.upcoming_events[i].category \notin CATEGORY_CHOICES
          \/ analysis.upcoming_events[i].importance \notin IMPORTANCE_CHOICES

\* every stored value of a field with choices is one of its choices
AllEnumsValid(store) ==
    /\ \A r \in store.sentiments :
          /\ r.sentiment \in SENTIMENT_CHOICES
          /\ r.confidence_level \in CONFIDENCE_CHOICES \cup {None}
    /\ \A r \in store.news : r.impact_level \in IMPACT_LEVEL_CHOICES
    /\ \A r \in store.events :
          r.category \in CATEGORY_CHOICES /\ r.importance \in IMPORTANCE_CHOICES

\* C19: an analysis with a value outside the choices of its field never reaches
\* the save (it fails for its security before anything is written), and no such
\* value is ever stored, in the committed rows or in those of a running call.
C19_InvalidEnumNeverStored ==
    /\ batch.stage = "saving" => ~HasInvalidEnum(call.analysis)
    /\ AllEnumsValid(db)
    /\ AllEnumsValid(tx)

\* the string names a calendar date in one of the formats the normalizer reads
Resolvable(s) ==
    /\ \E i \in 1..Len(DateFormats) : s.shape = DateFormats[i]
    /\ ValidDate(s.y, s.m, s.d)

\* C20: for the date string of every news item of a call, parse_date_string raises
\* nothing, and returns None when the string names no calendar date; so the news
\* step of a call raises nothing because of a date.
C20_ParseNeverRaises ==
    pc = "news" =>
        /\ \A i \in 1..Len(call.analysis.recent_news) :
              LET s == call.analysis.recent_news[i].date IN
                 /\ parse_date_string(s).kind # "raise"
                 /\ ~Resolvable(s) => parse_date_string(s) = NoDate
        /\ ~add_news_items(tx, call.security, call.analysis.recent_news, 1, clock).raised

\* the position of the first item of a news list that carries the url
FirstWithUrl(recent_news, url) ==
    CHOOSE i \in 1..Len(recent_news) :
        /\ recent_news[i].url = url
        /\ \A j \in 1..(i - 1) : recent_news[j].url # url

\* the date a NewsItem row gets for a date string: the date the string names, or
\* the current date when it names none
StoredDate(s) == IF Resolvable(s) THEN Date(s.y, s.m, s.d) ELSE Today

\* C21: every NewsItem row the news step inserts carries the date its item's
\* string names when the string resolves and the current date when it does not;
\* every UpcomingEvent row the events step inserts carries the date string of its
\* event unchanged, resolvable or not.
C21_DateFallback ==
    [][ /\ (pc = "news" /\ pc' # "failed") =>
              \A r \in tx'.news \ tx.news :
                 LET L  == call.analysis.recent_news
                     nd == L[FirstWithUrl(L, r.url)]
                 IN  r.headline = nd.headline /\ r.date = StoredDate(nd.date)
        /\ (pc = "events" /\ pc' # "failed") =>
              LET L    == call.analysis.upcoming_events
                  new  == tx'.events \ tx.events
              IN  /\ \A i \in 1..Len(L) :
                        \E r \in new : r.event = L[i].event /\ r.date = L[i].date
                  /\ \A r \in new :
                        \E i \in 1..Len(L) : r.event = L[i].event /\ r.date = L[i].date
      ]_vars

\* a call has committed that inserted a news item with the string "Q1 2025", stored
\* with the current date, a news item stored with the date its string names, and
\* an event stored with the string "Q1 2025"
C21_Witness ==
    /\ pc = "done"
    /\ \E r \in db.news \ pre.news : r.date = Today
    /\ \E r \in db.news \ pre.news : r.date = Date(2024, 1, 15)
    /\ \E e \in db.events \ pre.events : e.date = D_fuzzy /\ e.date.text = "Q1 2025"
    /\ \E i \in 1..Len(call.analysis.recent_news) :
          call.analysis.recent_news[i].date = D_fuzzy

\* the steps of a running call
Steps == {"sentiment", "summary", "highlights", "news", "trim_news", "events",
          "trim_events", "commit"}

\* C22: a call with skip_cleanup set deletes no NewsItem and no UpcomingEvent row
\* in any of its steps or at its commit; a call without the flag goes through
\* both cleanups, and each cleanup it leaves without failing has been applied:
\* the security is then within the cap of that cleanup.
C22_TrimSkippedOnlyOnRequest ==
    [][ (pc \in Steps) =>
          /\ (call.skip_cleanup /\ pc' # "failed") =>
                /\ tx.news \subseteq tx'.news
                /\ tx.events \subseteq tx'.events
                /\ db.news \subseteq db'.news
                /\ db.events \subseteq db'.events
                /\ pc' \notin {"trim_news", "trim_events"}
          /\ ~call.skip_cleanup =>
                /\ pc = "news" => pc' \in {"trim_news", "failed"}
                /\ pc = "events" => pc' \in {"trim_events", "failed"}
                /\ (pc = "trim_news" /\ pc' # "failed") =>
                      Cardinality(OfSecurity(tx'.news, call.security)) <= Max(NewsCap, 0)
                /\ (pc = "trim_events" /\ pc' # "failed") =>
                      Cardinality(OfSecurity(tx'.events, call.security)) <= Max(EventsCap, 0)
      ]_vars

\* the OverallSentiment rows of a store with the pair of an incoming sentiment
WithPair(store, s) == {r \in store.sentiments : Pair(r) = Pair(s)}

\* C23: the sentiment step looks the row up by (sentiment, rationale) alone: when
\* a row with the pair is stored it is reused, whatever the incoming confidence,
\* and the table is left as it was; when none is stored one row is created with
\* the incoming confidence.  No step of a call modifies or deletes an
\* OverallSentiment row, referenced by a summary or not; only the rollback of a
\* failed call drops the row that call created.
C23_SentimentMatchedOnPair ==
    [][ /\ (pc = "sentiment" /\ pc' = "summary") =>
              LET s     == call.analysis.overall_sentiment
                  found == WithPair(tx, s)
              IN  /\ found # {} =>
                        /\ tx'.sentiments = tx.sentiments
                        /\ \E r \in found : local'.sentiment = r.id
                  /\ found = {} =>
                        \E r \in tx'.sentiments \ tx.sentiments :
                           /\ tx'.sentiments = tx.sentiments \cup {r}
                           /\ Pair(r) = Pair(s)
                           /\ r.confidence_level = s.confidence_level
                           /\ local'.sentiment = r.id
        /\ pc # "sentiment" => tx'.sentiments \subseteq tx.sentiments
        /\ pc' # "failed" => tx.sentiments \subseteq tx'.sentiments
        /\ pc' = "failed" => tx'.sentiments = pre.sentiments
        /\ db.sentiments \subseteq db'.sentiments
      ]_vars

\* a call has committed whose pair was stored with another confidence: the row is
\* as it was, with the confidence it was created with, no row was added, and the
\* summary of the call's security references it
C23_Witness ==
    /\ pc = "done"
    /\ \E r \in pre.sentiments :
          /\ Pair(r) = Pair(call.analysis.overall_sentiment)
          /\ r.confidence_level # call.analysis.overall_sentiment.confidence_level
          /\ r \in db.sentiments
          /\ db.sentiments = pre.sentiments
          /\ \E m \in SummariesOf(db, call.security) : m.overall_sentiment = r.id

\* what a NewsItem row holds besides its id and created_at
Content(r) ==
    [ security |-> r.security, url |-> r.url, headline |-> r.headline, date |-> r.date,
      source |-> r.source, favicon |-> r.favicon, impact_level |-> r.impact_level,
      summary |-> r.summary ]

Contents(rows) == {Content(r) : r \in rows}

\* the orderings of a list
Orderings(L) ==
    { [i \in 1..Len(L) |-> L[p[i]]] :
        p \in {q \in [1..Len(L) -> 1..Len(L)] :
                 \A i, j \in 1..Len(L) : q[i] = q[j] => i = j} }

\* the NewsItem table a call can leave from a store, given its news list and its
\* news cap: the news step, then (unless cleanup is skipped) the cleanup, applied
\* or given up on an exception
NewsOutcomes(store, security, recent_news, max_news_items, skip_cleanup, now) ==
    LET r == add_news_items(store, security, recent_news, 1, now) IN
    IF r.raised THEN {[raised |-> TRUE, rows |-> {}]}
    ELSE IF skip_cleanup THEN {[raised |-> FALSE, rows |-> Contents(r.store.news)]}
    ELSE LET mine  == OfSecurity(r.store.news, security)
             limit == effective_max(max_news_items, MAX_NEWS_ITEMS_PER_SECURITY)
         IN  { [raised |-> FALSE, rows |-> Contents(delete_ids(r.store.news, ids))] :
                 ids \in oldest_items(mine, excess_count(Cardinality(mine), limit)) }
             \cup {[raised |-> FALSE, rows |-> Contents(r.store.news)]}

\* C24 as first stated: when a call reaches its news step, every ordering of its
\* news list leaves the same NewsItem rows (urls, contents, securities) as the
\* list itself.
C24_OrderIndependent ==
    pc = "news" =>
        \A L \in Orderings(call.analysis.recent_news) :
            NewsOutcomes(tx, call.security, L, call.max_news_items,
                         call.skip_cleanup, clock)
              = NewsOutcomes(tx, call.security, call.analysis.recent_news,
                             call.max_news_items, call.skip_cleanup, clock)

\* the news caps the orderings are compared under
OrderCaps == {NoOverride, <<0 - 1>>, <<0>>, <<1>>, <<2>>}

\* no url that is not stored occurs in the list with two different contents
OneContentPerNewUrl(store, recent_news) ==
    \A i, j \in 1..Len(recent_news) :
        ( /\ recent_news[i].url = recent_news[j].url
          /\ RowsWithUrl(store, recent_news[i].url) = {} )
        => recent_news[i] = recent_news[j]

\* the cleanup deletes none or all of the rows the call inserts: it is skipped,
\* or the cap is not positive, or the call inserts no more rows than the cap
TrimSparesOrTakesAll(store, recent_news, max_news_items, skip_cleanup) ==
    LET limit == effective_max(max_news_items, MAX_NEWS_ITEMS_PER_SECURITY) IN
    \/ skip_cleanup
    \/ limit <= 0
    \/ Cardinality(Urls(recent_news) \ StoredUrls(store, recent_news)) <= limit

\* C24, amended: every ordering of the news list leaves the same NewsItem rows
\* provided no url that is not yet stored occurs in the list with two different
\* contents and the cleanup deletes none or all of the rows the call inserts;
\* this for every news cap, with and without cleanup.
C24_OrderIndependentWhenUntrimmed ==
    pc = "news" =>
        \A cap \in OrderCaps : \A skip \in BOOLEAN :
        \A L \in Orderings(call.analysis.recent_news) :
            ( /\ OneContentPerNewUrl(tx, call.analysis.recent_news)
              /\ TrimSparesOrTakesAll(tx, call.analysis.recent_news, cap, skip) )
            => NewsOutcomes(tx, call.security, L, cap, skip, clock)
                 = NewsOutcomes(tx, call.security, call.analysis.recent_news,
                                cap, skip, clock)

\* a call with two news items of different urls, neither stored before, has
\* committed for a security that held a row from an earlier call, and both items
\* are stored
C24_Witness ==
    /\ pc = "done"
    /\ Len(call.analysis.recent_news) = 2
    /\ Cardinality(Urls(call.analysis.recent_news)) = 2
    /\ StoredUrls(pre, call.analysis.recent_news) = {}
    /\ OfSecurity(pre.news, call.security) # {}
    /\ StoredUrls(db, call.analysis.recent_news) = Urls(call.analysis.recent_news)

\* the urls a news list carries more than once
RepeatedUrls(recent_news) ==
    {u \in Urls(recent_news) :
        \E i, j \in 1..Len(recent_news) :
            i # j /\ recent_news[i].url = u /\ recent_news[j].url = u}

\* C26: when the news list of a call carries a url that is not stored more than
\* once, the news loop raises nothing, and the step leaves exactly one row for
\* that url, with the contents of its first occurrence.
C26_RepeatedUrlInsertedOnce ==
    [][ pc = "news" =>
          LET L == call.analysis.recent_news IN
          \A u \in RepeatedUrls(L) \ StoredUrls(tx, L) :
              /\ ~add_news_items(tx, call.security, L, 1, clock).raised
              /\ pc' # "failed" =>
                    /\ Cardinality(RowsWithUrl(tx', u)) = 1
                    /\ \A r \in RowsWithUrl(tx', u) :
                          /\ r.headline = L[FirstWithUrl(L, u)].headline
                          /\ r.security = call.security
      ]_vars

\* a call whose list carries a url, stored nowhere before, twice with different
\* headlines has committed, and the one row with the url has the first headline
C26_Witness ==
    /\ pc = "done"
    /\ Len(call.analysis.recent_news) = 2
    /\ call.analysis.recent_news[1].url = call.analysis.recent_news[2].url
    /\ call.analysis.recent_news[1].headline # call.analysis.recent_news[2].headline
    /\ RowsWithUrl(pre, call.analysis.recent_news[1].url) = {}
    /\ \E r \in db.news :
          /\ RowsWithUrl(db, call.analysis.recent_news[1].url) = {r}
          /\ r.headline = call.analysis.recent_news[1].headline

\* the next position of a call after each of its steps
NextStep(step, skip_cleanup) ==
    CASE step = "sentiment"   -> "summary"
      [] step = "summary"     -> "highlights"
      [] step = "highlights"  -> "news"
      [] step = "news"        -> IF skip_cleanup THEN "events" ELSE "trim_news"
      [] step = "trim_news"   -> "events"
      [] step = "events"      -> IF skip_cleanup THEN "commit" ELSE "trim_events"
      [] step = "trim_events" -> "commit"
      [] step = "commit"      -> "done"

\* every summary row of a store references a sentiment row of the store, and every
\* highlight row a summary row of the store
ReferencesExist(store) ==
    /\ \A m \in store.summaries : \E s \in store.sentiments : s.id = m.overall_sentiment
    /\ \A h \in store.highlights : \E m \in store.summaries : m.id = h.security_news_summary

\* C27: a call goes through its steps in the order sentiment, summary,
\* highlights, news, news cleanup, events, events cleanup (the cleanups left out
\* when skipped), or fails; and in every state, in the committed rows and in those
\* of the running call, every summary references a stored sentiment and every
\* highlight a stored summary.
C27_StepsInOrder ==
    /\ [][ pc \notin {"idle", "done", "failed"} =>
              pc' \in {pc, NextStep(pc, call.skip_cleanup), "failed"} ]_vars
    /\ [](ReferencesExist(db) /\ ReferencesExist(tx))

\* a call is between its summary step and its highlight step: its summary, not
\* yet committed, references the sentiment the call has created
C27_Witness ==
    /\ pc = "highlights"
    /\ \E m \in tx.summaries \ db.summaries :
          /\ m.id = local.news_summary
          /\ m.overall_sentiment = local.sentiment
          /\ \E s \in tx.sentiments \ db.sentiments : s.id = m.overall_sentiment

\* the cap of a call as the claim states it: the override when one is given, the
\* default when none is
StatedCap(override, default) == IF override = NoOverride THEN default ELSE override[1]

\* C28: the news cleanup of a call works with max_news_items when it is given, 0
\* included, and with MAX_NEWS_ITEMS_PER_SECURITY when it is not; the events
\* cleanup likewise with max_events and MAX_UPCOMING_EVENTS_PER_SECURITY; each
\* cleanup that runs without an exception leaves min(count, max(cap, 0)) rows of
\* the security, whatever the other cap is.
C28_CapIsOverrideOrDefault ==
    [][ /\ pc = "trim_news" =>
              /\ effective_max(call.max_news_items, MAX_NEWS_ITEMS_PER_SECURITY)
                   = StatedCap(call.max_news_items, MAX_NEWS_ITEMS_PER_SECURITY)
              /\ (pc' = "events" /\ errored' = errored) =>
                    Cardinality(OfSecurity(tx'.news, call.security))
                      = Min(Cardinality(OfSecurity(tx.news, call.security)),
                            Max(StatedCap(call.max_news_items,
                                          MAX_NEWS_ITEMS_PER_SECURITY), 0))
        /\ pc = "trim_events" =>
              /\ effective_max(call.max_events, MAX_UPCOMING_EVENTS_PER_SECURITY)
                   = StatedCap(call.max_events, MAX_UPCOMING_EVENTS_PER_SECURITY)
              /\ (pc' = "commit" /\ errored' = errored) =>
                    Cardinality(OfSecurity(tx'.events, call.security))
                      = Min(Cardinality(OfSecurity(tx.events, call.security)),
                            Max(StatedCap(call.max_events,
                                          MAX_UPCOMING_EVENTS_PER_SECURITY), 0))
      ]_vars

\* a call with max_news_items = 0 and no max_events has committed without an
\* exception: the news items it inserted are gone and its two events are stored
C28_Witness ==
    /\ pc = "done"
    /\ errored = ""
    /\ ~call.skip_cleanup
    /\ call.max_news_items = <<0>>
    /\ call.max_events = NoOverride
    /\ Len(call.analysis.recent_news) = 2
    /\ OfSecurity(db.news, call.security) = {}
    /\ Cardinality(OfSecurity(db.events, call.security)) = 2

\* the rows of a store that belong to a security: its summary, the highlights of
\* that summary, its news items and its events
RowsOwnedBy(store, security) ==
    LET mine == {m \in store.summaries : m.security = security} IN
    [ summaries  |-> mine,
      highlights |-> {h \in store.highlights :
                        \E m \in mine : h.security_news_summary = m.id},
      news       |-> {r \in store.news : r.security = security},
      events     |-> {r \in store.events : r.security = security} ]

\* C29: no step of a call, cleanups and commit included, creates, modifies or
\* deletes a summary, highlight, NewsItem or UpcomingEvent row of a security
\* other than the call's; after a committed call the rows of every other
\* security are those of before the call.
C29_OtherSecuritiesUntouched ==
    /\ [][ (pc \in Steps) =>
              \A b \in Securities \ {call.security} :
                 /\ pc' # "failed" => RowsOwnedBy(tx', b) = RowsOwnedBy(tx, b)
                 /\ RowsOwnedBy(db', b) = RowsOwnedBy(db, b) ]_vars
    /\ [](pc = "done" =>
             \A b \in Securities \ {call.security} :
                RowsOwnedBy(db, b) = RowsOwnedBy(pre, b))

\* a call with cap 0 on both lists has committed for a security and has emptied
\* its news and events, while the other security holds the summary, highlights,
\* news items and events an earlier call stored
C29_Witness ==
    /\ pc = "done"
    /\ errored = ""
    /\ call.max_news_items = <<0>>
    /\ call.max_events = <<0>>
    /\ Len(call.analysis.recent_news) = 2
    /\ RowsOwnedBy(db, call.security).news = {}
    /\ RowsOwnedBy(db, call.security).events = {}
    /\ \E b \in Securities \ {call.security} :
          /\ RowsOwnedBy(db, b).summaries # {}
          /\ RowsOwnedBy(db, b).highlights # {}
          /\ RowsOwnedBy(db, b).news # {}
          /\ RowsOwnedBy(db, b).events # {}

\* the securities of the list the loop has counted with one of the kinds
Counted(kinds) == {k \in 1..Len(batch.outcome) : batch.outcome[k].kind \in kinds}

\* C30: in a run each security the loop has passed is counted once, in
\* processed_count (dry run, or save returned) or in error_count (no analysis,
\* invalid analysis, exception): the two counters add up to the number of
\* securities passed, and to the length of the list when the run ends; a
\* security is counted as processed only in a dry run or when its save has
\* returned with its writes committed.
C30_CountersAddUp ==
    /\ []( batch.stage # "off" =>
             /\ batch.processed_count = Cardinality(Counted({"dry", "saved"}))
             /\ batch.error_count = Cardinality(Counted(FailureKinds))
             /\ batch.processed_count + batch.error_count = Len(batch.outcome)
             /\ Len(batch.outcome) = batch.i - 1
             /\ batch.stage = "end" =>
                   batch.processed_count + batch.error_count = Len(batch.securities) )
    /\ [][ batch'.processed_count # batch.processed_count =>
              /\ batch'.processed_count = batch.processed_count + 1
              /\ batch'.error_count = batch.error_count
              /\ \/ batch.dry_run /\ db' = db
                 \/ /\ batch.stage = "saving"
                    /\ pc = "done"
                    /\ db = tx
                    /\ SummariesOf(db, batch.securities[batch.i]) # {}
         ]_vars

\* a run over three securities has ended with one saved, one whose analysis was
\* invalid and one for which the agent returned nothing
C30_Witness ==
    /\ batch.stage = "end"
    /\ Len(batch.securities) = 3
    /\ batch.processed_count = 1
    /\ batch.error_count = 2
    /\ Cardinality(Counted({"saved"})) = 1
    /\ Cardinality(Counted({"invalid"})) = 1
    /\ Cardinality(Counted({"no_analysis"})) = 1

\* the result of calculate_portfolio_composition for a user is the result it has
\* with the holdings of the other users taken away
PortfolioIsolated(holdings, fundamentals) ==
    \A u \in Users :
        calculate_portfolio_composition(holdings, fundamentals, u)
          = calculate_portfolio_composition(OfUser(holdings, u), fundamentals, u)

\* C25: for every user the call returns one entry for each holding of the user
\* and no other entry; its result is the one it has without the holdings of the
\* other users, and a change that leaves the user's holdings (and the
\* fundamentals) as they are leaves the result as it is.
C25_OwnHoldingsOnly ==
    /\ []( /\ PortfolioIsolated(folio.holdings, folio.fundamentals)
           /\ \A u \in Users :
              \A r \in calculate_portfolio_composition(folio.holdings, folio.fundamentals, u) :
                 /\ ~r.raised
                 /\ Len(r.holdings) = Cardinality({h \in folio.holdings : h.user = u})
                 /\ {r.holdings[i].holding : i \in 1..Len(r.holdings)}
                      = {h \in folio.holdings : h.user = u} )
    /\ [][ \A u \in Users :
              ( /\ {h \in folio'.holdings : h.user = u} = {h \in folio.holdings : h.user = u}
                /\ folio'.fundamentals = folio.fundamentals )
              => calculate_portfolio_composition(folio'.holdings, folio'.fundamentals, u)
                   = calculate_portfolio_composition(folio.holdings, folio.fundamentals, u)
         ]_vars

====
